---- MODULE Spec2Model ----
(***************************************************************************)
(* Staff meal-ordering backend: catalog, free-meal calendar, order         *)
(* creation (self-service and admin-assisted), payment submission and      *)
(* verification, administrative order updates and admin notifications.     *)
(* Money is counted in whole currency units; dates are day numbers.        *)
(***************************************************************************)
EXTENDS Integers, Sequences, FiniteSets, TLC

\* ------------------------------------------------------------------ bounds
\* orders the ordering workflow creates (SpecOrders)
MaxOrders == 2
\* orders the whole-system specification follows through their life (Spec)
MaxLifecycleOrders == 1
\* lines of one request, and the largest quantity of a line
MaxLines == 2
MaxQty == 2
\* values an administrator may give a meal's fields
MaxPrice == 2
MaxCap == 2
MaxUnits == 3
\* the last day of the calendar
MaxDate == 2
\* the largest total and the largest amount paid the payment arithmetic is tried on
MaxAmount == 5
\* EmailVerification rows the sign-up flow creates, and the last minute of its clock
MaxOtps == 2
MaxClock == 16

\* ------------------------------------------------------- program constants
\* units_available = NULL ("Leave blank for unlimited")
Unlimited == -1000
\* created_at before the first save (auto_now_add has not run yet)
NoDate == 0
\* a NULL foreign key to CustomUser
NoUser == "none"
\* timedelta(minutes=15): the validity window of an OTP
OtpValidity == 15

Meals == {"m1", "m2"}
Employees == {"u1", "u2"}
Admins == {"a1"}
Users == Employees \cup Admins
Dates == 1..MaxDate
Prices == 1..MaxPrice
Quantities == 1..MaxQty
STATUS_CHOICES ==
    {"pending", "paid", "confirmed", "preparing", "ready", "completed",
     "cancelled", "free"}

VARIABLES
    meals,          \* Meal rows: meal -> [price, is_available, max_per_person, units_available]
    freeMealDays,   \* FreeMealDay rows: set of [date, is_active], date unique
    today,          \* timezone.now().date()
    orders,         \* Order rows in id order, each with its OrderItem rows
    payments,       \* Payment rows in id order
    notifications,  \* AdminNotification rows in id order
    last,           \* the last request handled and its outcome
    accounts,       \* CustomUser rows of the sign-up flow: email -> row, or NoAccount
    otps,           \* EmailVerification rows in id order
    now,            \* timezone.now(), in minutes
    inflight        \* order creations being served: request -> its position and locals

authVars == <<accounts, otps, now>>
vars == <<meals, freeMealDays, today, orders, payments, notifications, last,
          accounts, otps, now, inflight>>
db == <<meals, freeMealDays, orders, payments, notifications>>

\* ----------------------------------------------------------------- helpers
is_kitchen_admin(u) == u \in Admins

\* IsKitchenAdmin.has_permission
IsKitchenAdmin(u) == u \in Users /\ is_kitchen_admin(u)

\* is_free_meal_day without the is_active filter
IsFreeMealDayAnyRecord(d) == \E r \in freeMealDays : r.date = d

\* FreeMealDay.is_free_meal_day(date): an active record with exactly that date
IsFreeMealDay(d) == \E r \in freeMealDays : r.date = d /\ r.is_active

Lines == [meal : Meals, quantity : Quantities]

RECURSIVE SeqsUpTo(_, _)
SeqsUpTo(S, n) ==
    IF n = 0 THEN {<<>>}
    ELSE LET shorter == SeqsUpTo(S, n - 1)
         IN  shorter \cup {Append(s, x) : s \in {t \in shorter : Len(t) = n - 1}, x \in S}

ItemLists == SeqsUpTo(Lines, MaxLines)

\* validate_items with the per-person cap compared by >=
LineErrorStrictCap(ms, line) ==
    LET meal == ms[line.meal]
    IN  IF ~meal.is_available THEN "unavailable"
        ELSE IF line.quantity >= meal.max_per_person THEN "cap"
        ELSE IF meal.units_available # Unlimited /\ line.quantity > meal.units_available
             THEN "units"
        ELSE "ok"

\* validate_items without its inventory check
LineErrorNoUnits(ms, line) ==
    LET meal == ms[line.meal]
    IN  IF ~meal.is_available THEN "unavailable"
        ELSE IF line.quantity > meal.max_per_person THEN "cap"
        ELSE "ok"

\* One line of validate_items against the meal object the line carries.
\* ms is the table of meal objects as the request read them.
LineError(ms, line) ==
    LET meal == ms[line.meal]
    IN  IF ~meal.is_available THEN "unavailable"
        ELSE IF line.quantity > meal.max_per_person THEN "cap"
        ELSE IF meal.units_available # Unlimited /\ line.quantity > meal.units_available
             THEN "units"
        ELSE "ok"

\* validate_items looking at the first line only
ValidateItemsFirstOnly(ms, items) ==
    IF Len(items) = 0 THEN "empty" ELSE LineError(ms, items[1])

\* validate_items: the first violation rejects the whole request.
ValidateItems(ms, items) ==
    IF Len(items) = 0 THEN "empty"
    ELSE LET bad == {i \in 1..Len(items) : LineError(ms, items[i]) # "ok"}
         IN  IF bad = {} THEN "ok"
             ELSE LineError(ms, items[CHOOSE i \in bad : \A j \in bad : i <= j])

\* total_amount as computed in create(): 0 on a free day, else sum of price * quantity
RECURSIVE ComputeTotal(_, _, _)
ComputeTotal(ms, items, is_free_day) ==
    IF is_free_day \/ Len(items) = 0 THEN 0
    ELSE ms[Head(items).meal].price * Head(items).quantity
         + ComputeTotal(ms, Tail(items), is_free_day)

\* Order.save(): the free-meal check runs on every save, against the order's
\* creation date (today's date while created_at is still unset); auto_now_add
\* then stamps created_at on the first save.
OrderSave(o) ==
    LET d == IF o.created_at # NoDate THEN o.created_at ELSE today
        stamped == [o EXCEPT !.created_at = d]
    IN  IF IsFreeMealDay(d)
        THEN [stamped EXCEPT !.is_free_meal = TRUE, !.status = "free", !.total_amount = 0]
        ELSE stamped

\* OrderItem.save() without the free-meal branch
OrderItemSaveCatalogPrice(ms, order, line) ==
    [meal |-> line.meal, quantity |-> line.quantity,
     price_per_item |-> ms[line.meal].price,
     subtotal |-> ms[line.meal].price * line.quantity]

\* OrderItem.save(): price frozen from the line's meal object, 0 on a free order.
OrderItemSave(ms, order, line) ==
    LET p == IF order.is_free_meal THEN 0 ELSE ms[line.meal].price
    IN  [meal |-> line.meal, quantity |-> line.quantity,
         price_per_item |-> p, subtotal |-> p * line.quantity]

\* The "update meal units" loop of create(). Every line carries its own meal
\* object (read when the request was parsed, snap): the line subtracts its
\* quantity from that object's counter and saves the whole object.
RECURSIVE DecrementUnits(_, _, _)
DecrementUnits(ms, snap, items) ==
    IF Len(items) = 0 THEN ms
    ELSE LET line == Head(items)
             obj == snap[line.meal]
             written == [obj EXCEPT !.units_available = obj.units_available - line.quantity]
             ms1 == IF obj.units_available # Unlimited
                    THEN [ms EXCEPT ![line.meal] = written]
                    ELSE ms
         IN  DecrementUnits(ms1, snap, Tail(items))

\* Order.objects.create(...) followed by the OrderItem rows.
NewOrder(ms, owner, admin, items) ==
    LET is_free_day == IsFreeMealDay(today)
        o == OrderSave([user |-> owner,
                        status |-> IF is_free_day THEN "free" ELSE "pending",
                        total_amount |-> ComputeTotal(ms, items, is_free_day),
                        is_free_meal |-> is_free_day,
                        created_at |-> NoDate,
                        created_by_admin |-> admin,
                        items |-> <<>>])
    IN  [o EXCEPT !.items = [i \in 1..Len(items) |-> OrderItemSave(ms, o, items[i])]]

\* The response: the operation is recorded with its outcome.
Done(op) == last' = [op |-> op, ok |-> TRUE]

\* A request answered with an error.
Reject(op) == last' = [op |-> op, ok |-> FALSE]

\* a notification that names no order
NotificationNoOrder(type, order_id) == [notification_type |-> type, related_order |-> 0]

\* AdminNotification.objects.create(notification_type=..., related_order=...)
Notification(type, order_id) == [notification_type |-> type, related_order |-> order_id]

\* --------------------------------------------------------- sign-up state
\* emails of the sign-up flow: u1 has an account, n1 has none yet
AuthEmails == {"u1", "n1"}
Passwords == {"p0", "p1"}
\* the codes EmailVerification.save() may draw (random.choices of digits)
Codes == {"111111", "222222"}
Purposes == {"verification", "password_reset"}
\* no CustomUser row with that email
NoAccount == [exists |-> FALSE, is_email_verified |-> FALSE, password |-> "none"]

\* ------------------------------------------------- requests being served
Requests == {"r1", "r2"}
\* a request slot that serves nothing
Idle == [pc |-> "idle"]

\* ----------------------------------------------------------------- Init
Init ==
    /\ meals = [m \in Meals |->
                  IF m = "m1"
                  THEN [price |-> 2, is_available |-> TRUE,
                        max_per_person |-> 2, units_available |-> 3]
                  ELSE [price |-> 1, is_available |-> TRUE,
                        max_per_person |-> 1, units_available |-> Unlimited]]
    /\ freeMealDays = {}
    /\ today = 1
    /\ orders = <<>>
    /\ payments = <<>>
    /\ notifications = <<>>
    /\ last = [op |-> "init", ok |-> TRUE]
    /\ accounts = [e \in AuthEmails |->
                     IF e = "u1"
                     THEN [exists |-> TRUE, is_email_verified |-> TRUE, password |-> "p0"]
                     ELSE NoAccount]
    /\ otps = <<>>
    /\ now = 0
    /\ inflight = [r \in Requests |-> Idle]

\* ------------------------------------------------------------ order creation
\* serializer.save() of an accepted request and the view's notification: the
\* Order row, its OrderItem rows, the unit counters, one AdminNotification.
PersistOrder(owner, admin, items, type) ==
    /\ orders' = Append(orders, NewOrder(meals, owner, admin, items))
    /\ meals' = DecrementUnits(meals, meals, items)
    /\ notifications' = Append(notifications, Notification(type, Len(orders) + 1))


\* ------------------------------------------- order creation, step by step
\* Requests are served side by side. A request reads its meal objects when
\* its body is parsed and validated; what create() then writes is computed
\* from those objects and reaches the tables when the request completes.
Serving == {r \in Requests : inflight[r] # Idle}

\* OrderCreateView up to the end of is_valid(): every line's meal is read
\* and checked; a bad request is answered at once.
OrderCreateBegin(r, caller, items) ==
    /\ inflight[r] = Idle
    /\ Len(orders) + Cardinality(Serving) < MaxOrders
    /\ IF ValidateItems(meals, items) = "ok"
       THEN /\ inflight' = [inflight EXCEPT ![r] =
                    [pc |-> "validated", caller |-> caller, items |-> items, snap |-> meals]]
            /\ UNCHANGED last
       ELSE /\ UNCHANGED inflight
            /\ Reject("OrderCreate")
    /\ UNCHANGED <<meals, freeMealDays, today, orders, payments, notifications, authVars>>

\* OrderCreateSerializer.create and the view's notification, for a validated
\* request: the Order and OrderItem rows are priced from the meal objects
\* the request holds, and meal.save() writes each of those objects back whole
\* with its counter lowered.
OrderCreateFinish(r) ==
    /\ inflight[r] # Idle
    /\ orders' = Append(orders, NewOrder(inflight[r].snap, inflight[r].caller, NoUser,
                                         inflight[r].items))
    /\ meals' = DecrementUnits(meals, inflight[r].snap, inflight[r].items)
    /\ notifications' = Append(notifications, Notification("new_order", Len(orders) + 1))
    /\ inflight' = [inflight EXCEPT ![r] = Idle]
    /\ Done("OrderCreate")
    /\ UNCHANGED <<freeMealDays, today, payments, authVars>>

\* OrderCreateView with a request whose item validation ran inside the
\* persistence loop: the lines before the first bad one are already consumed.
OrderCreateUngated(caller, items) ==
    /\ Len(orders) < MaxOrders
    /\ IF ValidateItems(meals, items) = "ok"
       THEN /\ PersistOrder(caller, NoUser, items, "new_order")
            /\ Done("OrderCreate")
       ELSE /\ meals' = DecrementUnits(meals, meals,
                 SubSeq(items, 1,
                    (CHOOSE i \in 0..Len(items) :
                        /\ \A j \in 1..i : LineError(meals, items[j]) = "ok"
                        /\ (i < Len(items) => LineError(meals, items[i + 1]) # "ok"))))
            /\ UNCHANGED <<orders, notifications>>
            /\ Reject("OrderCreate")
    /\ UNCHANGED <<freeMealDays, today, payments, authVars, inflight>>

\* OrderCreateView: serializer validation, then OrderCreateSerializer.create,
\* then the admin notification.
OrderCreate(caller, items) ==
    /\ Len(orders) < MaxOrders
    /\ IF ValidateItems(meals, items) = "ok"
       THEN /\ PersistOrder(caller, NoUser, items, "new_order")
            /\ Done("OrderCreate")
       ELSE /\ UNCHANGED <<orders, meals, notifications>>
            /\ Reject("OrderCreate")
    /\ UNCHANGED <<freeMealDays, today, payments, authVars, inflight>>

\* validate_user_email without the is_kitchen_admin=False filter
ValidateUserEmailAnyUser(email) == email \in Users

\* AdminOrderCreateSerializer.validate_user_email: the target must exist and
\* must not be a kitchen admin.
ValidateUserEmail(email) == email \in Users /\ ~is_kitchen_admin(email)

\* AdminOrderCreateView: permission, validation of user_email and items, then
\* AdminOrderCreateSerializer.create, then the admin notification.
AdminOrderCreate(caller, user_email, items) ==
    /\ Len(orders) < MaxOrders
    /\ IF /\ IsKitchenAdmin(caller)
          /\ ValidateUserEmail(user_email)
          /\ ValidateItems(meals, items) = "ok"
       THEN /\ PersistOrder(user_email, caller, items, "admin_order_created")
            /\ Done("AdminOrderCreate")
       ELSE /\ UNCHANGED <<orders, meals, notifications>>
            /\ Reject("AdminOrderCreate")
    /\ UNCHANGED <<freeMealDays, today, payments, authVars, inflight>>

\* ------------------------------------------------------------------ payments
\* hasattr(order, 'payment')
HasPayment(ps, o) == \E i \in 1..Len(ps) : ps[i].order = o

PaymentOf(ps, o) == CHOOSE i \in 1..Len(ps) : ps[i].order = o

\* amounts a request may carry for an order: short by one, exact, over by one
PayAmounts(o) ==
    {a \in {orders[o].total_amount - 1, orders[o].total_amount,
            orders[o].total_amount + 1} : a >= 0}

\* PaymentSerializer.validate without its free-meal check
PaymentValidateNoFreeCheck(ps, os, o) ==
    IF HasPayment(ps, o) THEN "exists" ELSE "ok"

\* PaymentSerializer.validate
PaymentValidate(ps, os, o) ==
    IF HasPayment(ps, o) THEN "exists"
    ELSE IF os[o].is_free_meal THEN "free"
    ELSE "ok"

\* Payment.is_fully_paid
is_fully_paid(p, os) == p.amount_paid >= os[p.order].total_amount

\* the remaining amount without the floor at zero
amount_remainingUnclamped(p, os) ==
    os[p.order].total_amount - p.amount_paid

\* Payment.amount_remaining
amount_remaining(p, os) ==
    IF os[p.order].total_amount - p.amount_paid > 0
    THEN os[p.order].total_amount - p.amount_paid
    ELSE 0

\* PaymentCreateView: PaymentSerializer.validate, PaymentSerializer.create
\* (the Payment row, then status 'paid' and Order.save()), then the notification.
PaymentCreate(caller, o, amount) ==
    /\ o \in 1..Len(orders)
    /\ amount \in PayAmounts(o)
    /\ IF PaymentValidate(payments, orders, o) = "ok"
       THEN /\ payments' = Append(payments,
                 [order |-> o, amount_paid |-> amount, is_verified |-> FALSE])
            /\ orders' = [orders EXCEPT ![o] = OrderSave([@ EXCEPT !.status = "paid"])]
            /\ notifications' =
                 Append(notifications, Notification("payment_submitted", o))
            /\ Done("PaymentCreate")
       ELSE /\ UNCHANGED <<payments, orders, notifications>>
            /\ Reject("PaymentCreate")
    /\ UNCHANGED <<meals, freeMealDays, today, authVars, inflight>>

\* AdminPaymentUpdateView with PaymentUpdateSerializer.update: the payment is
\* saved with the submitted fields; a verified and fully paid payment then
\* sets the order to 'confirmed' and saves it.
AdminPaymentUpdate(caller, i, amount, verified) ==
    /\ i \in 1..Len(payments)
    /\ amount \in PayAmounts(payments[i].order) \cup {payments[i].amount_paid}
    /\ IF IsKitchenAdmin(caller)
       THEN LET payment == [payments[i] EXCEPT !.amount_paid = amount,
                                               !.is_verified = verified]
                o == payment.order
            IN  /\ payments' = [payments EXCEPT ![i] = payment]
                /\ orders' =
                     IF payment.is_verified /\ is_fully_paid(payment, orders)
                     THEN [orders EXCEPT ![o] = OrderSave([@ EXCEPT !.status = "confirmed"])]
                     ELSE orders
                /\ Done("AdminPaymentUpdate")
       ELSE /\ UNCHANGED <<payments, orders>>
            /\ Reject("AdminPaymentUpdate")
    /\ UNCHANGED <<meals, freeMealDays, today, notifications, authVars, inflight>>

\* PaymentAdmin.verify_payments on the selected payments: the rows are marked
\* verified by a queryset update, then each fully paid one confirms its order
\* through Order.save().
VerifyPayments(sel) ==
    /\ sel # {}
    /\ payments' = [i \in 1..Len(payments) |->
                      IF i \in sel THEN [payments[i] EXCEPT !.is_verified = TRUE]
                      ELSE payments[i]]
    /\ orders' = [o \in 1..Len(orders) |->
                    IF \E i \in sel : payments[i].order = o /\ is_fully_paid(payments[i], orders)
                    THEN OrderSave([orders[o] EXCEPT !.status = "confirmed"])
                    ELSE orders[o]]
    /\ Done("VerifyPayments")
    /\ UNCHANGED <<meals, freeMealDays, today, notifications, authVars, inflight>>

\* PaymentAdmin.mark_as_unverified: a queryset update, no order is touched.
MarkAsUnverified(sel) ==
    /\ sel # {}
    /\ payments' = [i \in 1..Len(payments) |->
                      IF i \in sel THEN [payments[i] EXCEPT !.is_verified = FALSE]
                      ELSE payments[i]]
    /\ Done("MarkAsUnverified")
    /\ UNCHANGED <<meals, freeMealDays, today, orders, notifications, authVars, inflight>>

\* ---------------------------------------------------- administrative orders
\* AdminOrderDetailView with OrderSerializer: status is writable (total_amount
\* and is_free_meal are read-only); the update ends in Order.save().
AdminOrderUpdate(caller, o, status) ==
    /\ o \in 1..Len(orders)
    /\ status \in STATUS_CHOICES
    /\ IF IsKitchenAdmin(caller)
       THEN /\ orders' = [orders EXCEPT ![o] = OrderSave([@ EXCEPT !.status = status])]
            /\ Done("AdminOrderUpdate")
       ELSE /\ UNCHANGED orders
            /\ Reject("AdminOrderUpdate")
    /\ UNCHANGED <<meals, freeMealDays, today, payments, notifications, authVars, inflight>>

\* OrderAdmin.mark_as_confirmed / preparing / ready / completed: a queryset
\* update of the status column of the selected orders, Order.save() is not run.
MarkAs(sel, status) ==
    /\ sel # {}
    /\ status \in {"confirmed", "preparing", "ready", "completed"}
    /\ orders' = [o \in 1..Len(orders) |->
                    IF o \in sel THEN [orders[o] EXCEPT !.status = status] ELSE orders[o]]
    /\ Done("MarkAs")
    /\ UNCHANGED <<meals, freeMealDays, today, payments, notifications, authVars, inflight>>

\* OrderAdmin change form with OrderItemInline: the order is saved through
\* Order.save() (total_amount and is_free_meal are read-only on the form), then
\* the edited line is saved through OrderItem.save(), which takes the price
\* from the meal as it is now (price_per_item and subtotal are read-only on
\* the inline, quantity is not).
OrderAdminChange(o, i, quantity) ==
    /\ o \in 1..Len(orders)
    /\ i \in 1..Len(orders[o].items)
    /\ quantity \in Quantities
    /\ quantity # orders[o].items[i].quantity
    /\ LET order == OrderSave(orders[o])
           item == OrderItemSave(meals, order,
                      [meal |-> orders[o].items[i].meal, quantity |-> quantity])
       IN  orders' = [orders EXCEPT ![o] = [order EXCEPT !.items[i] = item]]
    /\ Done("OrderAdminChange")
    /\ UNCHANGED <<meals, freeMealDays, today, payments, notifications, authVars, inflight>>

\* ------------------------------------------------------------------ catalog
MealFieldValues(field) ==
    CASE field = "price" -> Prices
      [] field = "is_available" -> BOOLEAN
      [] field = "max_per_person" -> 1..MaxCap
      [] field = "units_available" -> {Unlimited} \cup 0..MaxUnits

MealFields == {"price", "is_available", "max_per_person", "units_available"}

\* AdminMealDetailView with MealSerializer: a partial update of one field.
AdminMealUpdate(caller, m, field, value) ==
    /\ value \in MealFieldValues(field)
    /\ IF IsKitchenAdmin(caller)
       THEN /\ meals' = [meals EXCEPT ![m][field] = value]
            /\ Done("AdminMealUpdate")
       ELSE /\ UNCHANGED meals
            /\ Reject("AdminMealUpdate")
    /\ UNCHANGED <<freeMealDays, today, orders, payments, notifications, authVars, inflight>>

\* ----------------------------------------------------------- free-meal days
\* AdminFreeMealDayListCreateView: the date is unique.
AdminFreeMealDayCreate(caller, d, active) ==
    /\ IF IsKitchenAdmin(caller) /\ ~\E r \in freeMealDays : r.date = d
       THEN /\ freeMealDays' = freeMealDays \cup {[date |-> d, is_active |-> active]}
            /\ Done("AdminFreeMealDayCreate")
       ELSE /\ UNCHANGED freeMealDays
            /\ Reject("AdminFreeMealDayCreate")
    /\ UNCHANGED <<meals, today, orders, payments, notifications, authVars, inflight>>

\* AdminFreeMealDayDetailView, update: the active flag of an existing record.
AdminFreeMealDayUpdate(caller, r, active) ==
    /\ r \in freeMealDays
    /\ IF IsKitchenAdmin(caller)
       THEN /\ freeMealDays' = (freeMealDays \ {r}) \cup {[r EXCEPT !.is_active = active]}
            /\ Done("AdminFreeMealDayUpdate")
       ELSE /\ UNCHANGED freeMealDays
            /\ Reject("AdminFreeMealDayUpdate")
    /\ UNCHANGED <<meals, today, orders, payments, notifications, authVars, inflight>>

\* AdminFreeMealDayDetailView, delete.
AdminFreeMealDayDelete(caller, r) ==
    /\ r \in freeMealDays
    /\ IF IsKitchenAdmin(caller)
       THEN /\ freeMealDays' = freeMealDays \ {r}
            /\ Done("AdminFreeMealDayDelete")
       ELSE /\ UNCHANGED freeMealDays
            /\ Reject("AdminFreeMealDayDelete")
    /\ UNCHANGED <<meals, today, orders, payments, notifications, authVars, inflight>>

\* The calendar date moves on.
AdvanceDay ==
    /\ today < MaxDate
    /\ today' = today + 1
    /\ Done("AdvanceDay")
    /\ UNCHANGED <<meals, freeMealDays, orders, payments, notifications, authVars, inflight>>

\* the requests the lifecycle specifications order with
LifecycleItemLists ==
    {<<>>,
     <<[meal |-> "m1", quantity |-> 2]>>,
     <<[meal |-> "m1", quantity |-> 1], [meal |-> "m2", quantity |-> 1]>>}

\* ------------------------------------------------------------ sign-up flow
\* The response of a sign-up route: status code and error text.
Respond(op, ok, status, error) ==
    last' = [op |-> op, ok |-> ok, status |-> status, error |-> error]

\* every statement commits on its own
AtomicRequestsOff == FALSE

\* The request/transaction boundary: a request that ends in an unhandled
\* exception leaves nothing committed.
AtomicRequests == TRUE

\* EmailVerification.objects.create(user=..., purpose=...) with the code that
\* save() drew
NewOtp(email, code, purpose) ==
    [user |-> email, otp |-> code, purpose |-> purpose, created_at |-> now,
     is_used |-> FALSE]

\* register: the serializer refuses a taken email; otherwise the user row,
\* then the OTP row, then send_mail, which raises when delivery fails.
Register(email, password, code, delivered) ==
    /\ Len(otps) < MaxOtps
    /\ IF accounts[email].exists
       THEN /\ UNCHANGED <<accounts, otps>>
            /\ Respond("Register", FALSE, 400, "user with this email already exists.")
       ELSE LET user == [exists |-> TRUE, is_email_verified |-> FALSE,
                         password |-> password]
            IN  IF delivered
                THEN /\ accounts' = [accounts EXCEPT ![email] = user]
                     /\ otps' = Append(otps, NewOtp(email, code, "verification"))
                     /\ Respond("Register", TRUE, 201, "")
                ELSE /\ IF AtomicRequests
                        THEN UNCHANGED <<accounts, otps>>
                        ELSE /\ accounts' = [accounts EXCEPT ![email] = user]
                             /\ otps' = Append(otps, NewOtp(email, code, "verification"))
                     /\ Respond("Register", FALSE, 500, "send_mail raised")
    /\ UNCHANGED <<meals, freeMealDays, today, orders, payments, notifications,
                   now, inflight>>

\* forgot_password: 404 for an unknown email; otherwise the OTP row, then
\* send_mail, which raises when delivery fails.
ForgotPassword(email, code, delivered) ==
    /\ Len(otps) < MaxOtps
    /\ IF ~accounts[email].exists
       THEN /\ UNCHANGED otps
            /\ Respond("ForgotPassword", FALSE, 404, "No account found with this email.")
       ELSE IF delivered
       THEN /\ otps' = Append(otps, NewOtp(email, code, "password_reset"))
            /\ Respond("ForgotPassword", TRUE, 200, "")
       ELSE /\ IF AtomicRequests
               THEN UNCHANGED otps
               ELSE otps' = Append(otps, NewOtp(email, code, "password_reset"))
            /\ Respond("ForgotPassword", FALSE, 500, "send_mail raised")
    /\ UNCHANGED <<meals, freeMealDays, today, orders, payments, notifications,
                   accounts, now, inflight>>

\* the filter without created_at__gte
MatchingOtpsNoExpiry(email, code, purpose) ==
    {i \in 1..Len(otps) :
        /\ otps[i].user = email
        /\ otps[i].otp = code
        /\ otps[i].purpose = purpose
        /\ ~otps[i].is_used}

\* EmailVerification.objects.filter(user, otp, purpose, is_used=False,
\* created_at__gte=now - 15 minutes)
MatchingOtps(email, code, purpose) ==
    {i \in 1..Len(otps) :
        /\ otps[i].user = email
        /\ otps[i].otp = code
        /\ otps[i].purpose = purpose
        /\ ~otps[i].is_used
        /\ otps[i].created_at >= now - OtpValidity}

\* the lookup with CustomUser.DoesNotExist told apart
OtpLookupTellsUnknown(email, code, purpose) ==
    IF ~accounts[email].exists THEN "UserDoesNotExist"
    ELSE IF MatchingOtps(email, code, purpose) = {} THEN "DoesNotExist"
    ELSE IF Cardinality(MatchingOtps(email, code, purpose)) > 1 THEN "MultipleObjectsReturned"
    ELSE "found"

\* How the two .get() calls of verify_email and reset_password end.
OtpLookup(email, code, purpose) ==
    IF ~accounts[email].exists THEN "DoesNotExist"
    ELSE IF MatchingOtps(email, code, purpose) = {} THEN "DoesNotExist"
    ELSE IF Cardinality(MatchingOtps(email, code, purpose)) > 1 THEN "MultipleObjectsReturned"
    ELSE "found"

\* The answer to an OTP request whose lookup did not find one row: DoesNotExist
\* is caught and answered generically, MultipleObjectsReturned is not caught.
OtpRefused(op, lookup) ==
    /\ IF lookup = "DoesNotExist"
       THEN Respond(op, FALSE, 400, "Invalid or expired OTP.")
       ELSE Respond(op, FALSE, 500, "MultipleObjectsReturned")
    /\ UNCHANGED <<accounts, otps>>

\* verify_email
VerifyEmail(email, code, purpose) ==
    /\ LET lookup == OtpLookup(email, code, purpose)
       IN  IF lookup = "found"
           THEN LET i == CHOOSE i \in MatchingOtps(email, code, purpose) : TRUE
                IN  /\ accounts' =
                         IF purpose = "verification"
                         THEN [accounts EXCEPT ![email].is_email_verified = TRUE]
                         ELSE accounts
                    /\ otps' = [otps EXCEPT ![i].is_used = TRUE]
                    /\ Respond("VerifyEmail", TRUE, 200, "")
           ELSE OtpRefused("VerifyEmail", lookup)
    /\ UNCHANGED <<meals, freeMealDays, today, orders, payments, notifications,
                   now, inflight>>

\* reset_password
ResetPassword(email, code, new_password) ==
    /\ LET lookup == OtpLookup(email, code, "password_reset")
       IN  IF lookup = "found"
           THEN LET i == CHOOSE i \in MatchingOtps(email, code, "password_reset") : TRUE
                IN  /\ accounts' = [accounts EXCEPT ![email].password = new_password]
                    /\ otps' = [otps EXCEPT ![i].is_used = TRUE]
                    /\ Respond("ResetPassword", TRUE, 200, "")
           ELSE OtpRefused("ResetPassword", lookup)
    /\ UNCHANGED <<meals, freeMealDays, today, orders, payments, notifications,
                   now, inflight>>

\* The minutes at which requests arrive: the start, a minute later, the last
\* minute of a window opened at the start, and the minute after it.
ClockValues == {0, 1, OtpValidity, MaxClock}

\* Time passes until a later minute t.
Tick(t) ==
    /\ t \in ClockValues
    /\ t > now
    /\ now' = t
    /\ Done("Tick")
    /\ UNCHANGED <<meals, freeMealDays, today, orders, payments, notifications,
                   accounts, otps, inflight>>

\* ------------------------------------------------------- admin list routes
\* A read-only route: the permission classes decide whether the data is
\* returned; no table is written.
ReadRoute(op, permitted) ==
    /\ IF permitted THEN Done(op) ELSE Reject(op)
    /\ UNCHANGED <<meals, freeMealDays, today, orders, payments, notifications, authVars, inflight>>

\* AdminMealListCreateView, GET: get_permissions asks for IsKitchenAdmin on
\* POST only, so the list of all meals goes to every authenticated user.
AdminMealList(caller) == ReadRoute("AdminMealList", caller \in Users)

\* AdminDepartmentListCreateView, GET
AdminDepartmentList(caller) == ReadRoute("AdminDepartmentList", IsKitchenAdmin(caller))

\* AdminCategoryListCreateView, GET
AdminCategoryList(caller) == ReadRoute("AdminCategoryList", IsKitchenAdmin(caller))

\* AdminFreeMealDayListCreateView, GET
AdminFreeMealDayList(caller) == ReadRoute("AdminFreeMealDayList", IsKitchenAdmin(caller))

\* AdminOrderListView
AdminOrderList(caller) == ReadRoute("AdminOrderList", IsKitchenAdmin(caller))

\* AdminPaymentListView
AdminPaymentList(caller) == ReadRoute("AdminPaymentList", IsKitchenAdmin(caller))

\* admin_dashboard_stats
AdminDashboardStats(caller) == ReadRoute("AdminDashboardStats", IsKitchenAdmin(caller))

\* orders_by_date_range
OrdersByDateRange(caller) == ReadRoute("OrdersByDateRange", IsKitchenAdmin(caller))

\* A request of caller on one of the admin routes.
AdminRoute(caller) ==
    \/ AdminMealList(caller)
    \/ AdminDepartmentList(caller)
    \/ AdminCategoryList(caller)
    \/ AdminFreeMealDayList(caller)
    \/ AdminOrderList(caller)
    \/ AdminPaymentList(caller)
    \/ AdminDashboardStats(caller)
    \/ OrdersByDateRange(caller)
    \/ \E m \in Meals, v \in BOOLEAN : AdminMealUpdate(caller, m, "is_available", v)
    \/ \E a \in BOOLEAN : AdminFreeMealDayCreate(caller, today, a)
    \/ \E r \in freeMealDays, a \in BOOLEAN : AdminFreeMealDayUpdate(caller, r, a)
    \/ \E r \in freeMealDays : AdminFreeMealDayDelete(caller, r)
    \/ \E e \in Employees, items \in LifecycleItemLists :
          Len(orders) < MaxLifecycleOrders /\ AdminOrderCreate(caller, e, items)
    \/ \E o \in 1..Len(orders), st \in STATUS_CHOICES : AdminOrderUpdate(caller, o, st)
    \/ \E i \in 1..Len(payments), v \in BOOLEAN :
          \E a \in PayAmounts(payments[i].order) : AdminPaymentUpdate(caller, i, a, v)

\* ---------------------------------------------------------------------- Next
Emails == Users \cup {"nobody"}

\* The ordering workflow: order creations against a catalog and a calendar
\* that administrators keep editing.
NextOrders ==
    \/ \E u \in Users, items \in ItemLists : OrderCreate(u, items)
    \/ \E u \in Users, e \in Emails, items \in ItemLists : AdminOrderCreate(u, e, items)
    \/ \E u \in Admins, m \in Meals, v \in BOOLEAN :
          AdminMealUpdate(u, m, "is_available", v)
    \/ \E u \in Admins, a \in BOOLEAN : AdminFreeMealDayCreate(u, today, a)
    \/ \E u \in Admins, r \in freeMealDays, a \in BOOLEAN : AdminFreeMealDayUpdate(u, r, a)

SpecOrders == Init /\ [][NextOrders]_vars

\* The life of an order: creation, payment, verification, administrative
\* status changes, under a catalog and a calendar that keep changing.
Next ==
    \/ \E u \in {"u1"}, items \in LifecycleItemLists :
          Len(orders) < MaxLifecycleOrders /\ OrderCreate(u, items)
    \/ \E u \in Users, e \in {"u2", "a1", "nobody"}, items \in LifecycleItemLists :
          Len(orders) < MaxLifecycleOrders /\ AdminOrderCreate(u, e, items)
    \/ \E u \in Employees, o \in 1..Len(orders) :
          \E a \in PayAmounts(o) : PaymentCreate(u, o, a)
    \/ \E u \in Admins, i \in 1..Len(payments), v \in BOOLEAN :
          \E a \in PayAmounts(payments[i].order) \cup {payments[i].amount_paid} :
             AdminPaymentUpdate(u, i, a, v)
    \/ \E sel \in SUBSET (1..Len(payments)) : VerifyPayments(sel)
    \/ \E sel \in SUBSET (1..Len(payments)) : MarkAsUnverified(sel)
    \/ \E u \in Admins, o \in 1..Len(orders), s \in STATUS_CHOICES : AdminOrderUpdate(u, o, s)
    \/ \E sel \in SUBSET (1..Len(orders)), s \in STATUS_CHOICES : MarkAs(sel, s)
    \/ \E u \in Admins, v \in Prices : AdminMealUpdate(u, "m1", "price", v)
    \/ \E u \in Admins, d \in Dates, a \in BOOLEAN : AdminFreeMealDayCreate(u, d, a)
    \/ \E u \in Admins, r \in freeMealDays, a \in BOOLEAN : AdminFreeMealDayUpdate(u, r, a)
    \/ \E u \in Admins, r \in freeMealDays : AdminFreeMealDayDelete(u, r)
    \/ AdvanceDay

Spec == Init /\ [][Next]_vars

\* Order lines under price changes: orders are created, paid and verified
\* while administrators change prices and edit order lines.
NextLines ==
    \/ \E items \in LifecycleItemLists :
          Len(orders) < MaxLifecycleOrders /\ OrderCreate("u1", items)
    \/ \E u \in Admins, m \in Meals, v \in Prices : AdminMealUpdate(u, m, "price", v)
    \/ \E o \in 1..Len(orders), q \in Quantities :
          \E i \in 1..Len(orders[o].items) : OrderAdminChange(o, i, q)
    \/ \E o \in 1..Len(orders) : \E a \in PayAmounts(o) : PaymentCreate("u1", o, a)
    \/ \E u \in Admins, i \in 1..Len(payments), v \in BOOLEAN :
          \E a \in PayAmounts(payments[i].order) : AdminPaymentUpdate(u, i, a, v)
    \/ \E u \in Admins, o \in 1..Len(orders), st \in {"preparing", "cancelled"} :
          AdminOrderUpdate(u, o, st)
    \/ \E u \in Admins, a \in BOOLEAN : AdminFreeMealDayCreate(u, today, a)

SpecLines == Init /\ [][NextLines]_vars

\* Sign-up, verification and password reset, with a mail server that may fail.
NextAuth ==
    \/ \E e \in AuthEmails, p \in Passwords, c \in Codes, ok \in BOOLEAN :
          Register(e, p, c, ok)
    \/ \E e \in AuthEmails, c \in Codes, ok \in BOOLEAN : ForgotPassword(e, c, ok)
    \/ \E e \in AuthEmails, c \in Codes, p \in Purposes : VerifyEmail(e, c, p)
    \/ \E e \in AuthEmails, c \in Codes, p \in Passwords : ResetPassword(e, c, p)
    \/ \E t \in ClockValues : Tick(t)

SpecAuth == Init /\ [][NextAuth]_vars

\* Concurrent ordering: employees' requests of one line each, all for the
\* meal of finite inventory, are served side by side while an administrator
\* edits that meal's price, availability and cap.
RaceItemLists == {<<l>> : l \in {x \in Lines : x.meal = "m1"}}

NextRace ==
    \/ \E r \in Requests, u \in Employees, items \in RaceItemLists :
          OrderCreateBegin(r, u, items)
    \/ \E r \in Requests : OrderCreateFinish(r)
    \/ \E u \in Admins, f \in MealFields \ {"units_available"} :
          \E v \in MealFieldValues(f) : AdminMealUpdate(u, "m1", f, v)

SpecRace == Init /\ [][NextRace]_vars

\* Access control: employees and kitchen admins both call the admin routes,
\* on orders and payments that employees create.
NextAccess ==
    \/ \E items \in LifecycleItemLists :
          Len(orders) < MaxLifecycleOrders /\ OrderCreate("u1", items)
    \/ \E u \in Employees, o \in 1..Len(orders) :
          \E a \in PayAmounts(o) : PaymentCreate(u, o, a)
    \/ \E u \in Users : AdminRoute(u)

SpecAccess == Init /\ [][NextAccess]_vars

\* ------------------------------------------------------------------- claims
IsCreation(l) == l.op \in {"OrderCreate", "AdminOrderCreate"}

\* The acceptance rule for one line, as the interface states it.
LineAcceptable(line) ==
    /\ meals[line.meal].is_available
    /\ line.quantity <= meals[line.meal].max_per_person
    /\ (meals[line.meal].units_available # Unlimited
          => line.quantity <= meals[line.meal].units_available)

\* The (meal, quantity) lines an order was created from.
RequestOf(o) ==
    [i \in 1..Len(o.items) |-> [meal |-> o.items[i].meal, quantity |-> o.items[i].quantity]]

\* The order a creation step has just added.
Created == orders'[Len(orders')]

AcceptedCreation == IsCreation(last') /\ last'.ok /\ Len(orders') = Len(orders) + 1

RejectedCreation == IsCreation(last') /\ ~last'.ok

RECURSIVE QuantityOf(_, _)
QuantityOf(items, m) ==
    IF Len(items) = 0 THEN 0
    ELSE (IF Head(items).meal = m THEN Head(items).quantity ELSE 0)
         + QuantityOf(Tail(items), m)

\* C1: a finite unit counter is never negative, and no order creation
\* (self-service or admin-assisted) raises it or makes it unlimited.
C1_UnitsNeverNegativeNorRaised ==
    /\ [](\A m \in Meals :
            meals[m].units_available # Unlimited => meals[m].units_available >= 0)
    /\ [][IsCreation(last') =>
            \A m \in Meals :
               meals[m].units_available # Unlimited =>
                  /\ meals'[m].units_available # Unlimited
                  /\ meals'[m].units_available <= meals[m].units_available]_vars

\* two orders have used up the three units of m1
C1_Witness ==
    /\ Len(orders) = 2
    /\ IsCreation(last) /\ last.ok
    /\ meals["m1"].units_available = 0

\* C2: an accepted order creation lowers each finite counter by the total
\* quantity of that meal in the request, summed over all of its lines.
C2_UnitsLoweredByOrderedTotal ==
    [][AcceptedCreation =>
         \A m \in Meals :
            meals[m].units_available # Unlimited =>
               meals'[m].units_available
                  = meals[m].units_available - QuantityOf(RequestOf(Created), m)]_vars

\* C3: a rejected order creation (either route) changes nothing: no Order, no
\* OrderItem, no AdminNotification, no unit counter.
C3_RejectedCreationChangesNothing ==
    [][RejectedCreation =>
         UNCHANGED <<meals, freeMealDays, orders, payments, notifications>>]_vars

\* a creation was rejected after an order took two of the three units of m1
C3_Witness ==
    /\ last.op = "OrderCreate" /\ ~last.ok
    /\ Len(orders) = 1
    /\ meals["m1"].units_available = 1
    /\ Len(notifications) = 1

\* C4: a request with a non-empty item list, from a caller the route admits
\* (and, on the admin route, for an employee's email), is accepted if and only
\* if every line's meal is available, its quantity is within max_per_person
\* and, for a finite counter, within units_available; both routes alike.
C4_AcceptanceRule ==
    /\ [][AcceptedCreation =>
            \A i \in 1..Len(Created.items) : LineAcceptable(RequestOf(Created)[i])]_vars
    /\ [](Len(orders) < MaxOrders =>
            \A items \in ItemLists \ {<<>>} :
               (\A i \in 1..Len(items) : LineAcceptable(items[i])) =>
                  /\ ENABLED (OrderCreate("u1", items) /\ last'.ok)
                  /\ ENABLED (AdminOrderCreate("a1", "u2", items) /\ last'.ok))

\* an admin-assisted order was accepted after a self-service one, with m2 withdrawn
C4_Witness ==
    /\ Len(orders) = 2
    /\ last.op = "AdminOrderCreate" /\ last.ok
    /\ orders[1].created_by_admin = NoUser
    /\ orders[2].created_by_admin = "a1"
    /\ ~meals["m2"].is_available

RECURSIVE SumSubtotals(_)
SumSubtotals(items) ==
    IF Len(items) = 0 THEN 0 ELSE Head(items).subtotal + SumSubtotals(Tail(items))

\* the catalog's price of a list of lines
RECURSIVE CatalogTotal(_)
CatalogTotal(lines) ==
    IF Len(lines) = 0 THEN 0
    ELSE meals[Head(lines).meal].price * Head(lines).quantity + CatalogTotal(Tail(lines))

\* C5: every order that is not a free-meal order has total_amount equal to the
\* sum of its line subtotals; every free-meal order has total_amount 0 and
\* price_per_item 0 on every line.
C5_TotalsMatchLines ==
    \A o \in 1..Len(orders) :
       IF orders[o].is_free_meal
       THEN /\ orders[o].total_amount = 0
            /\ \A i \in 1..Len(orders[o].items) : orders[o].items[i].price_per_item = 0
       ELSE SumSubtotals(orders[o].items) = orders[o].total_amount

\* C6: no operation changes the is_free_meal flag or the total_amount of an
\* order that already exists.
C6_FreeFlagAndTotalFixed ==
    [][\A o \in 1..Len(orders) :
          /\ orders'[o].is_free_meal = orders[o].is_free_meal
          /\ orders'[o].total_amount = orders[o].total_amount]_vars

\* C7: an existing order neither enters nor leaves status 'free'.
C7_FreeOnlyAtCreation ==
    [][\A o \in 1..Len(orders) :
          (orders'[o].status = "free") <=> (orders[o].status = "free")]_vars

\* C8: an order accepted on an active free-meal day is free: flag set, total
\* 0, status 'free', every line priced 0 with subtotal 0; an order accepted on
\* any other day is not free, is 'pending', its lines carry the catalog's
\* current prices and its total is the sum of price times quantity.
C8_CreatedOrderPricing ==
    [][AcceptedCreation =>
         IF IsFreeMealDay(today)
         THEN /\ Created.is_free_meal
              /\ Created.status = "free"
              /\ Created.total_amount = 0
              /\ \A i \in 1..Len(Created.items) :
                    Created.items[i].price_per_item = 0 /\ Created.items[i].subtotal = 0
         ELSE /\ ~Created.is_free_meal
              /\ Created.status = "pending"
              /\ Created.total_amount = CatalogTotal(RequestOf(Created))
              /\ \A i \in 1..Len(Created.items) :
                    Created.items[i].price_per_item = meals[Created.items[i].meal].price]_vars

\* a two-line order was just accepted on an active free-meal day
C8_Witness ==
    /\ IsCreation(last) /\ last.ok
    /\ IsFreeMealDay(today)
    /\ Len(orders) = 1
    /\ Len(orders[1].items) = 2
    /\ orders[1].status = "free"
    /\ orders[1].items[1].price_per_item = 0
    /\ meals[orders[1].items[1].meal].price > 0

\* C9: an order has at most one Payment, and an order with a Payment is not a
\* free-meal order.
C9_OnePaymentAndNotFree ==
    /\ \A i, j \in 1..Len(payments) : payments[i].order = payments[j].order => i = j
    /\ \A i \in 1..Len(payments) : ~orders[payments[i].order].is_free_meal

\* C10: a payment submission against an order that has a Payment or is a
\* free-meal order is not accepted, and a rejected submission changes nothing:
\* no Payment row, no order, no notification.
C10_RejectedPaymentSubmission ==
    /\ [](\A o \in 1..Len(orders) :
            (HasPayment(payments, o) \/ orders[o].is_free_meal) =>
               \A u \in Users, a \in PayAmounts(o) :
                  ~ENABLED (PaymentCreate(u, o, a) /\ last'.ok))
    /\ [][(last'.op = "PaymentCreate" /\ ~last'.ok) =>
            UNCHANGED <<meals, freeMealDays, orders, payments, notifications>>]_vars

\* a second submission against a paid, non-free order was rejected
C10_Witness ==
    /\ last.op = "PaymentCreate" /\ ~last.ok
    /\ Len(orders) = 1
    /\ Len(payments) = 1
    /\ ~orders[1].is_free_meal
    /\ orders[1].status = "paid"

\* C11: an accepted payment submission leaves a Payment for its order and the
\* order in status 'paid'.
C11_AcceptedSubmissionMarksPaid ==
    [][(last'.op = "PaymentCreate" /\ last'.ok) =>
         /\ Len(payments') = Len(payments) + 1
         /\ LET o == payments'[Len(payments')].order
            IN  /\ ~HasPayment(payments, o)
                /\ ~orders[o].is_free_meal
                /\ orders'[o].status = "paid"]_vars

\* C12: after an administrative payment update the order is 'confirmed' when
\* the updated payment is verified and covers the order's total; otherwise the
\* order's status is what it was.
C12_UpdateConfirmsOnlyWhenVerifiedAndPaid ==
    [][\A u \in Admins, i \in 1..Len(payments), v \in BOOLEAN :
         \A a \in PayAmounts(payments[i].order) \cup {payments[i].amount_paid} :
            AdminPaymentUpdate(u, i, a, v) =>
               LET o == payments[i].order
               IN  IF v /\ a >= orders[o].total_amount
                   THEN orders'[o].status = "confirmed"
                   ELSE orders'[o].status = orders[o].status]_vars

\* C13: an order in status 'confirmed' has a verified Payment whose amount
\* covers the order's total.
C13_ConfirmedMeansVerifiedAndPaid ==
    \A o \in 1..Len(orders) :
       orders[o].status = "confirmed" =>
          /\ HasPayment(payments, o)
          /\ PaymentOf(payments, o).is_verified
          /\ PaymentOf(payments, o).amount_paid >= orders[o].total_amount

\* C14: repeating the administrative update of a verified payment of a
\* confirmed order with the fields it already has changes neither the order's
\* status nor the payment.
C14_ReverificationIdempotent ==
    [][\A u \in Admins, i \in 1..Len(payments) :
         (/\ payments[i].is_verified
          /\ orders[payments[i].order].status = "confirmed"
          /\ AdminPaymentUpdate(u, i, payments[i].amount_paid, TRUE)) =>
            /\ orders'[payments[i].order].status = "confirmed"
            /\ payments'[i].amount_paid = payments[i].amount_paid
            /\ payments'[i].is_verified]_vars

Max(a, b) == IF a >= b THEN a ELSE b

\* what Payment.amount_remaining and Payment.is_fully_paid must give for a
\* payment p of an order of os
RemainingAndFullyPaidAgree(p, os) ==
    LET total == os[p.order].total_amount
        paid == p.amount_paid
    IN  /\ amount_remaining(p, os) = Max(total - paid, 0)
        /\ amount_remaining(p, os) >= 0
        /\ is_fully_paid(p, os) <=> (paid >= total)
        /\ paid > total => (amount_remaining(p, os) = 0 /\ is_fully_paid(p, os))

\* C15: for every non-negative total and amount paid, amount_remaining is
\* max(total - paid, 0), never negative, and is_fully_paid holds exactly when
\* paid >= total; an overpayment has nothing remaining and is fully paid.
C15_RemainingAndFullyPaid ==
    /\ \A total \in 0..MaxAmount, paid \in 0..MaxAmount :
          RemainingAndFullyPaidAgree([order |-> 1, amount_paid |-> paid],
                                     <<[total_amount |-> total]>>)
    /\ \A i \in 1..Len(payments) : RemainingAndFullyPaidAgree(payments[i], orders)

\* a stored payment exceeds its order's total
C15_Witness ==
    \E i \in 1..Len(payments) :
       /\ orders[payments[i].order].total_amount > 0
       /\ payments[i].amount_paid > orders[payments[i].order].total_amount
       /\ amount_remaining(payments[i], orders) = 0
       /\ is_fully_paid(payments[i], orders)

AcceptedSubmission ==
    last'.op = "PaymentCreate" /\ last'.ok /\ Len(payments') = Len(payments) + 1

\* C16: there are as many AdminNotification records as accepted order
\* creations plus accepted payment submissions: each of those appends exactly
\* one notification that references its order, and every other step (rejected
\* requests, administrative updates and verifications) appends none.
C16_OneNotificationPerAcceptedRequest ==
    /\ [](Len(notifications) = Len(orders) + Len(payments))
    /\ [][Len(orders') >= Len(orders) /\ Len(payments') >= Len(payments)]_vars
    /\ [][IF AcceptedCreation
          THEN /\ Len(notifications') = Len(notifications) + 1
               /\ SubSeq(notifications', 1, Len(notifications)) = notifications
               /\ notifications'[Len(notifications')].related_order = Len(orders')
          ELSE IF AcceptedSubmission
          THEN /\ Len(notifications') = Len(notifications) + 1
               /\ SubSeq(notifications', 1, Len(notifications)) = notifications
               /\ notifications'[Len(notifications')].related_order
                     = payments'[Len(payments')].order
          ELSE /\ notifications' = notifications
               /\ Len(orders') = Len(orders)
               /\ Len(payments') = Len(payments)]_vars

\* an order and its payment have been notified, a verification has not
C16_Witness ==
    /\ last.op = "AdminPaymentUpdate" /\ last.ok
    /\ Len(orders) = 1 /\ Len(payments) = 1
    /\ payments[1].is_verified
    /\ Len(notifications) = 2
    /\ notifications[2].notification_type = "payment_submitted"
    /\ notifications[2].related_order = 1

\* C17: a request on an admin route by an authenticated user who is not a
\* kitchen admin is refused: it changes no state and returns no data.
C17_AdminRoutesRefuseEmployees ==
    [][\A u \in Employees :
         AdminRoute(u) =>
            /\ ~last'.ok
            /\ UNCHANGED <<meals, freeMealDays, orders, payments, notifications>>]_vars

\* C18: a payment submission against an order that another user owns is
\* rejected: no Payment is created and the order's status stays as it was.
C18_CrossUserSubmissionRejected ==
    [][\A u \in Users, o \in 1..Len(orders) :
         \A a \in PayAmounts(o) :
            (orders[o].user # u /\ PaymentCreate(u, o, a)) =>
               /\ ~last'.ok
               /\ payments' = payments
               /\ orders'[o].status = orders[o].status]_vars

\* C19: an accepted admin-assisted creation gives an order owned by the
\* targeted user, who is not a kitchen admin, with created_by_admin the caller;
\* a target email that is unknown or a kitchen admin's is never accepted and
\* its rejection changes nothing; an accepted self-service creation gives an
\* order owned by the caller with created_by_admin empty.
C19_AdminAssistedOwnership ==
    /\ [][AcceptedCreation =>
            \A u \in Users :
               /\ OrderCreate(u, RequestOf(Created)) =>
                     (Created.user = u /\ Created.created_by_admin = NoUser)
               /\ \A e \in Emails :
                     AdminOrderCreate(u, e, RequestOf(Created)) =>
                        /\ Created.user = e
                        /\ e \in Users /\ ~is_kitchen_admin(e)
                        /\ Created.created_by_admin = u]_vars
    /\ [][(last'.op = "AdminOrderCreate" /\ ~last'.ok) =>
            UNCHANGED <<meals, freeMealDays, orders, payments, notifications>>]_vars
    /\ [](Len(orders) < MaxOrders =>
            \A u \in Users, e \in Emails \ Employees, items \in ItemLists :
               ~ENABLED (AdminOrderCreate(u, e, items) /\ last'.ok))

\* an admin-assisted order exists and a later admin-assisted request was refused
C19_Witness ==
    /\ last.op = "AdminOrderCreate" /\ ~last.ok
    /\ Len(orders) = 1
    /\ orders[1].user = "u1"
    /\ orders[1].created_by_admin = "a1"
    /\ Len(notifications) = 1
    /\ notifications[1].notification_type = "admin_order_created"

\* C20: the prices an order froze at creation outlive a change of the meal's
\* price: on an order that is not a free-meal order no step changes
\* total_amount or a line's price_per_item, nor the subtotal of a line whose
\* quantity stays.
C20_PricesFrozenAtCreation ==
    [][\A o \in 1..Len(orders) :
         (~orders[o].is_free_meal /\ ~orders'[o].is_free_meal) =>
            /\ orders'[o].total_amount = orders[o].total_amount
            /\ \A i \in 1..Len(orders[o].items) :
                  /\ orders'[o].items[i].price_per_item = orders[o].items[i].price_per_item
                  /\ orders'[o].items[i].quantity = orders[o].items[i].quantity
                        => orders'[o].items[i].subtotal = orders[o].items[i].subtotal]_vars

\* C21: a date is a free-meal day exactly when the calendar holds an active
\* record for that very date; an inactive record for it, or active records for
\* other dates, do not make it one.
C21_FreeMealDayPredicate ==
    \A d \in Dates :
       /\ IsFreeMealDay(d) <=> ([date |-> d, is_active |-> TRUE] \in freeMealDays)
       /\ (\A r \in freeMealDays : r.date = d => ~r.is_active) => ~IsFreeMealDay(d)
       /\ (\A r \in freeMealDays : r.is_active => r.date # d) => ~IsFreeMealDay(d)

\* an order placed on a day with an inactive record, while another day is an
\* active free-meal day, is an ordinary order
C21_Witness ==
    /\ [date |-> 1, is_active |-> FALSE] \in freeMealDays
    /\ [date |-> 2, is_active |-> TRUE] \in freeMealDays
    /\ today = 1
    /\ IsCreation(last) /\ last.ok
    /\ Len(orders) = 1
    /\ ~orders[1].is_free_meal
    /\ orders[1].status = "pending"

NoUsableOtp(e, c, p) ==
    \A i \in 1..Len(otps) :
       (otps[i].user = e /\ otps[i].otp = c /\ otps[i].purpose = p) =>
          (otps[i].is_used \/ now - otps[i].created_at > OtpValidity)

GenericRefusal(op) ==
    [op |-> op, ok |-> FALSE, status |-> 400, error |-> "Invalid or expired OTP."]

\* C23: verify-email and reset-password answer an email without an account
\* exactly as they answer an account presented with a wrong, used or expired
\* OTP: the same status, the same error, no change.
C23_NoAccountEnumeration ==
    [][last'.op \in {"VerifyEmail", "ResetPassword"} =>
       \A e \in AuthEmails, c \in Codes :
         /\ \A p \in Purposes :
               ((~accounts[e].exists \/ NoUsableOtp(e, c, p)) /\ VerifyEmail(e, c, p)) =>
                  (last' = GenericRefusal("VerifyEmail") /\ UNCHANGED <<accounts, otps>>)
         /\ \A pw \in Passwords :
               (/\ ~accounts[e].exists \/ NoUsableOtp(e, c, "password_reset")
                /\ ResetPassword(e, c, pw)) =>
                  (last' = GenericRefusal("ResetPassword") /\ UNCHANGED <<accounts, otps>>)]_vars

\* a reset was refused while u1 holds a used OTP and n1 has no account
C23_Witness ==
    /\ last = GenericRefusal("ResetPassword")
    /\ ~accounts["n1"].exists
    /\ Len(otps) = 1
    /\ otps[1].user = "u1" /\ otps[1].is_used

\* an accepted OTP request uses up one unused row
AcceptanceUsesOneOtp ==
    (last'.op \in {"VerifyEmail", "ResetPassword"} /\ last'.ok) =>
       \E i \in 1..Len(otps) :
          /\ ~otps[i].is_used /\ otps'[i].is_used
          /\ \A j \in 1..Len(otps) : j # i => otps'[j] = otps[j]

\* a request presenting what row i holds is refused and changes nothing
RefusedFor(i) ==
    /\ VerifyEmail(otps[i].user, otps[i].otp, otps[i].purpose) =>
          (~last'.ok /\ UNCHANGED <<accounts, otps>>)
    /\ otps[i].purpose = "password_reset" =>
          \A pw \in Passwords :
             ResetPassword(otps[i].user, otps[i].otp, pw) =>
                (~last'.ok /\ UNCHANGED <<accounts, otps>>)

\* C24: an OTP is one-time: the accepted row is marked used, and every later
\* verify-email or reset-password request presenting its email, code and
\* purpose is refused and changes neither the verified flag nor the password.
C24_OtpOneTime ==
    [][/\ AcceptanceUsesOneOtp
       /\ \A i \in 1..Len(otps) : otps[i].is_used => RefusedFor(i)]_vars

\* rows of (email, code, purpose) exist and all are older than the window
AllExpired(e, c, p) ==
    /\ \E i \in 1..Len(otps) : otps[i].user = e /\ otps[i].otp = c /\ otps[i].purpose = p
    /\ \A i \in 1..Len(otps) :
          (otps[i].user = e /\ otps[i].otp = c /\ otps[i].purpose = p) =>
             now - otps[i].created_at > OtpValidity

\* C25: an OTP older than 15 minutes is not accepted: the request is refused,
\* the OTP stays unused, the verified flag and the password stay as they were.
C25_ExpiredOtpRefused ==
    /\ [][last'.op \in {"VerifyEmail", "ResetPassword"} =>
          \A e \in AuthEmails, c \in Codes :
            /\ \A p \in Purposes :
                  (AllExpired(e, c, p) /\ VerifyEmail(e, c, p)) =>
                     (~last'.ok /\ UNCHANGED <<accounts, otps>>)
            /\ \A pw \in Passwords :
                  (AllExpired(e, c, "password_reset") /\ ResetPassword(e, c, pw)) =>
                     (~last'.ok /\ UNCHANGED <<accounts, otps>>)]_vars
    /\ [][\A i \in 1..Len(otps) :
            (~otps[i].is_used /\ now - otps[i].created_at > OtpValidity) =>
               ~otps'[i].is_used]_vars

\* n1 registered, let the code age 16 minutes, and was refused
C25_Witness ==
    /\ last = GenericRefusal("VerifyEmail")
    /\ accounts["n1"].exists /\ ~accounts["n1"].is_email_verified
    /\ Len(otps) = 1
    /\ otps[1].user = "n1" /\ ~otps[1].is_used
    /\ now - otps[1].created_at = OtpValidity + 1

\* units of meal m on the lines of the orders os
RECURSIVE OrderedUnits(_, _)
OrderedUnits(os, m) ==
    IF Len(os) = 0 THEN 0
    ELSE QuantityOf(RequestOf(Head(os)), m) + OrderedUnits(Tail(os), m)

\* C26: with order creations served concurrently on a meal of finite
\* inventory, no decrement is lost (the units on accepted orders and the units
\* left always add up to the same inventory, so the accepted quantities never
\* exceed it) and the counter is never negative.
C26_ConcurrentOrdersKeepInventory ==
    /\ [](\A m \in Meals :
            meals[m].units_available # Unlimited => meals[m].units_available >= 0)
    /\ [][\A m \in Meals :
            meals[m].units_available # Unlimited =>
               meals'[m].units_available + OrderedUnits(orders', m)
                  = meals[m].units_available + OrderedUnits(orders, m)]_vars

\* C30: an order creation served while an administrator updates a meal leaves
\* the meal's price, availability and cap as the administrator committed them:
\* its inventory write changes the unit counter only.
C30_OrderWriteKeepsAdminFields ==
    [][AcceptedCreation =>
         \A m \in Meals :
            /\ meals'[m].price = meals[m].price
            /\ meals'[m].is_available = meals[m].is_available
            /\ meals'[m].max_per_person = meals[m].max_per_person]_vars

\* C27: a payment submission or an administrative payment update never
\* changes the status of an order that is 'preparing', 'ready' or 'completed'.
C27_ProgressionHasNoPaymentCoupling ==
    [][last'.op \in {"PaymentCreate", "AdminPaymentUpdate", "VerifyPayments"} =>
         \A o \in 1..Len(orders) :
            orders[o].status \in {"preparing", "ready", "completed"} =>
               orders'[o].status = orders[o].status]_vars

\* C28: in every reachable state an order's status is 'free' exactly when its
\* is_free_meal flag is set.
C28_FreeStatusIffFreeFlag ==
    \A o \in 1..Len(orders) : (orders[o].status = "free") <=> orders[o].is_free_meal

\* C29: an accepted order holds, of every meal, no more than max_per_person
\* in total over its lines and, for a finite counter, no more than the units
\* available before the order.
C29_PerMealTotalWithinLimits ==
    [][AcceptedCreation =>
         \A m \in Meals :
            /\ QuantityOf(RequestOf(Created), m) <= meals[m].max_per_person
            /\ meals[m].units_available # Unlimited =>
                  QuantityOf(RequestOf(Created), m) <= meals[m].units_available]_vars
====
